---- MODULE Spec2Model ----
(***************************************************************************)
(* Model of brentmin (pyGPs/Core/tools.py), Brent's one-dimensional        *)
(* minimiser.  Reals are modelled in fixed point: abscissas, steps and     *)
(* tolerances are integer multiples of one grid unit, a product with a     *)
(* non-integer constant and the quotient p/q are rounded to the nearest    *)
(* grid unit.  The midpoint xm = 0.5*(a+b) is kept doubled (xm2 = a+b) so  *)
(* that every comparison against it is exact.  The objective f is an       *)
(* external collaborator: each call returns any value of FVals (whatever   *)
(* the abscissa, so every pure objective with values in FVals is covered)  *)
(* and, as auxiliary output, a tag naming the abscissa of the call.        *)
(***************************************************************************)
EXTENDS Integers, Sequences, FiniteSets

\* ---- bounds of the model ----
MaxX == 12        \* brackets are drawn from {-MaxX, 0, MaxX}
MaxF == 2         \* objective values are drawn from 0..MaxF
MaxNit == 6       \* Nitmax is drawn from 1..MaxNit
MaxTol == 2       \* tol is drawn from {3*k : k \in 1..MaxTol} grid units

\* ---- program constants, as rationals ----
CNum == 382               \* c = 0.5*(3.0 - sqrt(5.0)) = 0.381966...
CDen == 1000
SepsDen == 67108864       \* seps = sqrt(eps) = 2^-26
EpsTol == 1               \* eps, in grid units: the resolution of the representation

FVals == 0..MaxF
Brackets == {<<lo, up>> \in {-MaxX, 0, MaxX} \X {-MaxX, 0, MaxX} : lo <= up}
TolVals == {3 * k : k \in 1..MaxTol}

VARIABLES
  xlow, xupp, Nitmax, tol,           \* arguments
  pc,                                \* position in brentmin
  fa, fb, funccount,
  a, b, v, w, xf, x, d, e,
  fx, fv, fw, fu,
  xm2, tol1, tol2,
  varargout,                         \* abscissa whose auxiliary outputs are held
  xmin, fmin,                        \* returned values
  evals,                             \* history: sequence of <<abscissa, value>> of the calls of f
  iters,                             \* history: number of loop iterations run
  last                               \* history: the step taken by the last iteration

vars == <<xlow, xupp, Nitmax, tol, pc, fa, fb, funccount, a, b, v, w, xf, x, d, e,
          fx, fv, fw, fu, xm2, tol1, tol2, varargout, xmin, fmin, evals, iters, last>>

\* ---- arithmetic helpers ----
Abs(n) == IF n < 0 THEN -n ELSE n
Max(m, n) == IF m >= n THEN m ELSE n

\* cmp(n, 0)
Cmp0(n) == IF n > 0 THEN 1 ELSE IF n < 0 THEN -1 ELSE 0

\* si = cmp(n,0); if n == 0: si += 1
SignPos(n) == IF n = 0 THEN Cmp0(n) + 1 ELSE Cmp0(n)

\* n/m for m > 0, rounded to the nearest grid unit
RoundDiv(n, m) == Cmp0(n) * ((2 * Abs(n) + m) \div (2 * m))

\* c*n
CMul(n) == RoundDiv(CNum * n, CDen)

\* seps*abs(xf) + tol/3.0
Tol1Of(xfv, t) == (Abs(xfv) \div SepsDen) + (t \div 3)

\* ---- pieces of the main loop ----
LoopCondSwapped(xfv, m2, av, bv, t2) == Abs(2 * xfv - m2) > (bv - av) - 2 * t2
\* abs(xf-xm) > (tol2 - 0.5*(b-a)), doubled
LoopCond(xfv, m2, av, bv, t2) == Abs(2 * xfv - m2) > 2 * t2 - (bv - av)

TrialPointNoMin(xfv, dv, t1) == xfv + dv
\* x = xf + si * max(abs(d),tol1)
TrialPoint(xfv, dv, t1) == xfv + SignPos(dv) * Max(Abs(dv), t1)

BudgetReachedStrict(fc, nit) == fc > nit
\* funccount >= Nitmax
BudgetReached(fc, nit) == fc >= nit

CountCallTwice(fc) == fc + 2
\* funccount += 1
CountCall(fc) == fc + 1

NewBracketWrongSide(av, bv, xfv, xv, fuv, fxv) ==
  IF fuv <= fxv
    THEN IF xv >= xfv THEN <<av, xfv>> ELSE <<xfv, bv>>
    ELSE IF xv < xfv THEN <<xv, bv>> ELSE <<av, xv>>
\* the new <<a, b>>
NewBracket(av, bv, xfv, xv, fuv, fxv) ==
  IF fuv <= fxv
    THEN IF xv >= xfv THEN <<xfv, bv>> ELSE <<av, xfv>>
    ELSE IF xv < xfv THEN <<xv, bv>> ELSE <<av, xv>>

PointsAlwaysSecond(vv, fvv, wv, fwv, xfv, fxv, xv, fuv) ==
  IF fuv <= fxv
    THEN [v |-> wv, fv |-> fwv, w |-> xfv, fw |-> fxv, xf |-> xv, fx |-> fuv]
    ELSE [v |-> wv, fv |-> fwv, w |-> xv, fw |-> fuv, xf |-> xfv, fx |-> fxv]
\* the new v, fv, w, fw, xf, fx
Points(vv, fvv, wv, fwv, xfv, fxv, xv, fuv) ==
  IF fuv <= fxv
    THEN [v |-> wv, fv |-> fwv, w |-> xfv, fw |-> fxv, xf |-> xv, fx |-> fuv]
    ELSE IF (fuv <= fwv) \/ (wv = xfv)
      THEN [v |-> wv, fv |-> fwv, w |-> xv, fw |-> fuv, xf |-> xfv, fx |-> fxv]
      ELSE IF (fuv <= fvv) \/ (vv = xfv) \/ (vv = wv)
        THEN [v |-> xv, fv |-> fuv, w |-> wv, fw |-> fwv, xf |-> xfv, fx |-> fxv]
        ELSE [v |-> vv, fv |-> fvv, w |-> wv, fw |-> fwv, xf |-> xfv, fx |-> fxv]

PostPointNoTie(lo, up, fav, fbv, xfv, fxv) ==
  IF fav < fxv
    THEN <<lo, fav>>
    ELSE IF fbv < fxv THEN <<up, fbv>> ELSE <<xfv, fxv>>
\* the <<xf, fx>> left by the check of the endpoints
PostPoint(lo, up, fav, fbv, xfv, fxv) ==
  IF (fav < fxv) /\ (fav <= fbv)
    THEN <<lo, fav>>
    ELSE IF fbv < fxv THEN <<up, fbv>> ELSE <<xfv, fxv>>

\* the step of one iteration: [kind, d, e]
Step ==
  LET tryPar == Abs(e) > tol1
      r0 == (xf - w) * (fx - fv)
      q0 == (xf - v) * (fx - fw)
      p0 == (xf - v) * q0 - (xf - w) * r0
      q1 == 2 * (q0 - r0)
      p == IF q1 > 0 THEN -p0 ELSE p0
      q == Abs(q1)
      r == e
      e1 == IF tryPar THEN d ELSE e
      accept == /\ tryPar
                /\ 2 * Abs(p) < Abs(q * r)
                /\ p > q * (a - xf)
                /\ p < q * (b - xf)
      dpar == RoundDiv(p, q)
      xpar == xf + dpar
      near == ((xpar - a) < tol2) \/ ((b - xpar) < tol2)
      egs == IF 2 * xf >= xm2 THEN a - xf ELSE b - xf
  IN  IF accept
        THEN IF near
               THEN [kind |-> "forced", d |-> tol1 * SignPos(xm2 - 2 * xf), e |-> e1]
               ELSE [kind |-> "parabolic", d |-> dpar, e |-> e1]
        ELSE [kind |-> "golden", d |-> CMul(egs), e |-> egs]

NoStep == [kind |-> "none", xf |-> 0, d |-> 0, tol1 |-> 0, a |-> 0, b |-> 0]

Init ==
  /\ \E br \in Brackets : xlow = br[1] /\ xupp = br[2]
  /\ Nitmax \in 1..MaxNit
  /\ tol \in TolVals
  /\ pc = "start"
  /\ fa = 0 /\ fb = 0 /\ funccount = 0
  /\ a = 0 /\ b = 0 /\ v = 0 /\ w = 0 /\ xf = 0 /\ x = 0 /\ d = 0 /\ e = 0
  /\ fx = 0 /\ fv = 0 /\ fw = 0 /\ fu = 0
  /\ xm2 = 0 /\ tol1 = 0 /\ tol2 = 0
  /\ varargout = 0 /\ xmin = 0 /\ fmin = 0
  /\ evals = <<>> /\ iters = 0 /\ last = NoStep

\* lines 105-113: floor the tolerance, evaluate the endpoints
EvalEndpoints ==
  /\ pc = "start"
  /\ tol' = Max(tol, EpsTol)
  /\ \E ya \in FVals : \E yb \in FVals :
       /\ fa' = ya
       /\ fb' = yb
       /\ evals' = evals \o << <<xlow, ya>>, <<xupp, yb>> >>
  /\ funccount' = 2
  /\ pc' = "interior"
  /\ UNCHANGED <<xlow, xupp, Nitmax, a, b, v, w, xf, x, d, e, fx, fv, fw, fu,
                 xm2, tol1, tol2, varargout, xmin, fmin, iters, last>>

\* lines 114-132: the start point
EvalStart ==
  /\ pc = "interior"
  /\ LET x0 == xlow + CMul(xupp - xlow) IN
       /\ a' = xlow /\ b' = xupp
       /\ v' = x0 /\ w' = x0 /\ xf' = x0 /\ x' = x0
       /\ d' = 0 /\ e' = 0
       /\ \E y \in FVals :
            /\ fx' = y /\ fv' = y /\ fw' = y
            /\ evals' = Append(evals, <<x0, y>>)
       /\ varargout' = x0
       /\ funccount' = CountCall(funccount)
       /\ xm2' = xlow + xupp
       /\ tol1' = Tol1Of(x0, tol)
       /\ tol2' = 2 * Tol1Of(x0, tol)
  /\ pc' = "loop"
  /\ UNCHANGED <<xlow, xupp, Nitmax, tol, fa, fb, fu, xmin, fmin, iters, last>>

\* lines 134-195: one iteration of the main loop
Iterate ==
  /\ pc = "loop"
  /\ LoopCond(xf, xm2, a, b, tol2)
  /\ LET st == Step
         xn == TrialPoint(xf, st.d, tol1)
     IN \E y \in FVals :
          LET br == NewBracket(a, b, xf, xn, y, fx)
              pt == Points(v, fv, w, fw, xf, fx, xn, y)
          IN /\ d' = st.d /\ e' = st.e
             /\ x' = xn /\ fu' = y
             /\ varargout' = xn
             /\ evals' = Append(evals, <<xn, y>>)
             /\ funccount' = CountCall(funccount)
             /\ a' = br[1] /\ b' = br[2]
             /\ v' = pt.v /\ fv' = pt.fv /\ w' = pt.w /\ fw' = pt.fw
             /\ xf' = pt.xf /\ fx' = pt.fx
             /\ xm2' = br[1] + br[2]
             /\ tol1' = Tol1Of(pt.xf, tol)
             /\ tol2' = 2 * Tol1Of(pt.xf, tol)
             /\ last' = [kind |-> st.kind, xf |-> xf, d |-> st.d, tol1 |-> tol1,
                         a |-> a, b |-> b]
             /\ iters' = iters + 1
             /\ pc' = IF BudgetReached(CountCall(funccount), Nitmax) THEN "post" ELSE "loop"
  /\ UNCHANGED <<xlow, xupp, Nitmax, tol, fa, fb, xmin, fmin>>

\* line 134: the loop condition fails
ExitLoop ==
  /\ pc = "loop"
  /\ ~LoopCond(xf, xm2, a, b, tol2)
  /\ pc' = "post"
  /\ UNCHANGED <<xlow, xupp, Nitmax, tol, fa, fb, funccount, a, b, v, w, xf, x, d, e,
                 fx, fv, fw, fu, xm2, tol1, tol2, varargout, xmin, fmin, evals, iters, last>>

\* lines 196-206: check the endpoints and return
PostCheck ==
  /\ pc = "post"
  /\ LET pp == PostPoint(xlow, xupp, fa, fb, xf, fx) IN
       /\ xf' = pp[1] /\ fx' = pp[2]
       /\ xmin' = pp[1] /\ fmin' = pp[2]
  /\ pc' = "done"
  /\ UNCHANGED <<xlow, xupp, Nitmax, tol, fa, fb, funccount, a, b, v, w, x, d, e,
                 fv, fw, fu, xm2, tol1, tol2, varargout, evals, iters, last>>

Next == EvalEndpoints \/ EvalStart \/ Iterate \/ ExitLoop \/ PostCheck

Spec == Init /\ [][Next]_vars

\* ---- properties ----
Min(m, n) == IF m <= n THEN m ELSE n

RECURSIVE MinVal(_, _, _)
\* the least value among the calls i..j of f
MinVal(sq, i, j) == IF i = j THEN sq[i][2] ELSE Min(sq[i][2], MinVal(sq, i + 1, j))

\* f was called at xx and returned yy (Inside: by a call after the two endpoint calls)
Sampled(xx, yy) == \E i \in 1..Len(evals) : evals[i] = <<xx, yy>>
SampledInside(xx, yy) == \E i \in 3..Len(evals) : evals[i] = <<xx, yy>>

InLoop == pc \in {"loop", "post"}

\* C1: the returned evaluation count never exceeds maxEvaluations (Nitmax).
C1_CountWithinBudget == pc = "done" => funccount <= Nitmax

\* C2: the auxiliary outputs returned are those the objective produced at the
\* returned abscissa xmin.
C2_AuxAtXmin == pc = "done" => varargout = xmin

\* C3: the returned fmin is the minimum of the objective values at xlow, at xupp
\* and at every interior trial point, and xmin is an abscissa evaluated with value
\* fmin: xlow when fa < fx and fa <= fb, otherwise xupp when fb < fx, otherwise
\* the best interior point.
C3_BestOfSampled ==
  pc = "done" =>
    /\ fmin = MinVal(evals, 1, Len(evals))
    /\ Sampled(xmin, fmin)
    /\ LET fi == MinVal(evals, 3, Len(evals)) IN
         IF (fa < fi) /\ (fa <= fb) THEN xmin = xlow
         ELSE IF fb < fi THEN xmin = xupp
         ELSE SampledInside(xmin, fi)

C3_Witness ==
  /\ pc = "done" /\ iters >= 2
  /\ xmin = xupp /\ xlow < xupp
  /\ fb < fa /\ fb < MinVal(evals, 3, Len(evals))

\* C4: in every state of the main loop xlow <= a <= xf <= b <= xupp, a never
\* decreases and b never increases from one iteration to the next, and the
\* returned xmin satisfies xlow <= xmin <= xupp.
C4_StaysInBracket ==
  /\ [](InLoop => (xlow <= a /\ a <= xf /\ xf <= b /\ b <= xupp))
  /\ [][pc = "loop" => (a' >= a /\ b' <= b)]_vars
  /\ [](pc = "done" => (xlow <= xmin /\ xmin <= xupp))

C4_Witness ==
  /\ pc = "loop" /\ iters >= 2
  /\ xlow < a /\ a < xf /\ xf < b /\ b < xupp

\* C5 as stated: for a degenerate interval xlow == xupp, xmin is that single point
\* and the evaluation count is exactly 2.
C5_DegenerateCountTwo == (pc = "done" /\ xlow = xupp) => (xmin = xlow /\ funccount = 2)

\* C5 amended: for a degenerate interval xlow == xupp, xmin is that single point
\* and the evaluation count is exactly 3 (both endpoints and the start point).
C5_DegenerateCountThree == (pc = "done" /\ xlow = xupp) => (xmin = xlow /\ funccount = 3)

C5_Witness ==
  /\ pc = "done" /\ xlow = xupp /\ xlow # 0
  /\ fa = fb /\ fb = fmin /\ Len(evals) = 3 /\ iters = 0

\* C6: funccount equals the number of times the objective has been invoked so far,
\* so the returned count is the total number of objective calls.
C6_CounterExact == funccount = Len(evals)

C6_Witness == pc = "done" /\ iters >= 3 /\ Len(evals) = 6

\* the number of steps brentmin can still take, at most
StepsLeft ==
  CASE pc = "start" -> 4 + Max(1, Nitmax - 3)
    [] pc = "interior" -> 3 + Max(1, Nitmax - 3)
    [] pc = "loop" -> 2 + Max(1, Nitmax - 3) - iters
    [] pc = "post" -> 1
    [] pc = "done" -> 0

\* C8: brentmin always terminates with a normal return: before the return a step
\* is always possible (no step fails, whatever the objective returns) and every
\* step lowers the bounded count StepsLeft; the loop is left at the bottom of the
\* first iteration in which the evaluation count has reached maxEvaluations, so
\* it runs at most max(1, maxEvaluations - 3) iterations.
C8_Terminates ==
  /\ [](pc # "done" => ENABLED Next)
  /\ [](StepsLeft >= 0)
  /\ [][StepsLeft' < StepsLeft]_vars
  /\ [](iters <= Max(1, Nitmax - 3))
  /\ [][(pc = "loop" /\ iters' = iters + 1 /\ funccount' >= Nitmax) => pc' = "post"]_vars

C8_Witness ==
  /\ pc = "done" /\ Nitmax >= 5
  /\ funccount = Nitmax /\ iters = Nitmax - 3
  /\ fmin < fa /\ fmin < fb
  /\ LoopCond(xf, xm2, a, b, tol2)

\* C9 as stated: after every update of the tracked points fx <= fw <= fv.
C9_SortedTriple == (InLoop /\ iters >= 1) => (fx <= fw /\ fw <= fv)

\* C9 amended: after every update of the tracked points fx <= fw and fx <= fv, and
\* fw <= fv as well unless v still coincides with xf.
C9_BestFirst ==
  (InLoop /\ iters >= 1) => (fx <= fw /\ fx <= fv /\ (v # xf => fw <= fv))

C9_Witness == InLoop /\ iters >= 2 /\ v # xf /\ w # xf /\ v # w /\ fx < fw /\ fw < fv

\* C10: in every iteration the trial point x satisfies |x - xf| >= tol1, and a zero
\* step d == 0 is resolved to the positive direction, x = xf + tol1.
C10_MinimumStep ==
  last.kind # "none" =>
    /\ Abs(x - last.xf) >= last.tol1
    /\ last.tol1 > 0
    /\ (last.d = 0 => x = last.xf + last.tol1)

C10_Witness == last.kind = "parabolic" /\ last.d = 0 /\ x = last.xf + last.tol1

====
